---- MODULE Spec2Model ----
\* pytest-gcppubsub: the lifecycle coordinator of the PubSub emulator
\* (src/pytest_gcppubsub/_emulator.py).
\*
\* Workers are PubSubEmulator instances constructed with a shared_dir
\* (pytest-xdist workers, one OS process each); the standalone instance is
\* constructed without one.  A worker drives its instance as the
\* pubsub_emulator fixture does (plugin.py lines 102 and 122): one start(),
\* and one stop() once start() has returned.  The standalone instance is
\* either called freely (stop() at any time, start() whenever it is not
\* started, a failed start() retried) or driven by the fixture.  The direct
\* caller calls the module's functions _terminate_process and
\* _wait_for_port on their own.
\*
\* Each method is cut into steps at the points where another OS process can
\* be scheduled: taking the file lock, reading the state file, launching,
\* polling the port, writing the state file, sending a signal, releasing the
\* lock.  The emulator processes, the state file and the ports are the
\* environment the code talks to.  A pid is not reused within a run.
EXTENDS Integers, FiniteSets, Sequences, TLC

\* ------------------------------------------------------------- bounds
NumWorkers == 2
MaxLaunches == 2

\* ---------------------------------------------------- program constants
DefaultPort == 8085

Workers == 1..NumWorkers
\* One instance without a shared_dir: standalone instances share nothing.
Standalones == {NumWorkers + 1}
\* One caller of the module-level functions.
Direct == {NumWorkers + 2}
\* A process other than the workers that takes pubsub_emulator.lock.
Foreign == NumWorkers + 3
Callers == Workers \cup Standalones \cup Direct
Pids == 1..MaxLaunches

\* Ports the OS hands out for a bind to port 0.
EphemeralPorts == {49152, 49153}

\* The constructor arguments (host, port, project) an instance may be given:
\* the defaults, and an auto-port configuration of another project.
DefaultConfig == [host |-> "localhost", port |-> DefaultPort, project |-> "test-project"]
AutoConfig == [host |-> "127.0.0.1", port |-> 0, project |-> "p"]
Configs == {DefaultConfig, AutoConfig}

\* self._info = None
NoInfo == [host |-> "", port |-> 0, project |-> ""]

EmulatorInfo(h, p, pr) == [host |-> h, port |-> p, project |-> pr]

\* The content of pubsub_emulator.json.  kind is "absent" (no file), "record"
\* (the dict _write_state dumps) or one of MalformedKinds.
FileShape(k) == [kind |-> k, pid |-> 0, host |-> "", port |-> 0, project |-> "", worker_count |-> 0]
AbsentFile == FileShape("absent")
\* What _read_state returns for a missing or undecodable file.
NoneState == FileShape("none")
\* not_json: text json.loads rejects (empty, truncated, garbage);
\* json_null: the text null; json_object_no_pid: a JSON object without the
\* record's keys, such as {}; json_non_object: a JSON array, number, string
\* or boolean; not_utf8: bytes read_text cannot decode.
MalformedKinds == {"not_json", "json_null", "json_object_no_pid", "json_non_object", "not_utf8"}

StateRecord(pid, h, p, pr, n) ==
    [kind |-> "record", pid |-> pid, host |-> h, port |-> p, project |-> pr, worker_count |-> n]

\* An emulator process that was never launched.
Unborn == [state |-> "unborn", host |-> "", port |-> 0, project |-> "", listening |-> FALSE]

\* The arguments a direct _wait_for_port call is given.
Hosts == {"localhost"}
Ports == {DefaultPort, 49152}
Timeouts == {1, 15}
\* No _wait_for_port call made yet.
NoCall == [host |-> "", port |-> 0, timeout |-> 0, msg |-> <<>>, terminated |-> {}]

\* The environment variables the fixture sets, and values they may hold
\* before it runs.
EnvNames == {"PUBSUB_EMULATOR_HOST", "PUBSUB_PROJECT_ID"}
EnvValues == {"", "previous"}
\* os.environ.get(name) of a variable that is not set.
None == [set |-> FALSE, value |-> ""]

VARIABLES
    cfg,        \* cfg[c]: self._host, self._port, self._project
    pc,         \* pc[c]: where instance c is in start() or stop()
    op,         \* op[c]: the call c is in, or made last: "none", "start", "stop"
    err,        \* err[c]: the exception the call raises, "none" if none
    process,    \* process[c]: pid of self._process, 0 for None
    info,       \* info[c]: self._info
    is_owner,   \* is_owner[c]: self._is_owner
    st,         \* st[c]: the local `state` of _start_shared / _stop_shared
    lport,      \* lport[c]: the local `port` of the start methods, 0 if unset
    probed,     \* probed[c]: the call has tried to connect to the port
    tpid,       \* tpid[c]: the pid argument of _terminate_process
    held,       \* held[c]: c's last start() returned and c has not stopped since
    lock,       \* holder of pubsub_emulator.lock, 0 if free
    file,       \* content of pubsub_emulator.json
    procs,      \* procs[pid]: the emulator process launched as pid
    nextPid,    \* the pid the next launch gets
    signals,    \* the <<pid, signal>> pairs os.kill has delivered
    pending,    \* pending[c]: pids c's start() calls launched since c's last stop()
    faults,     \* kinds of failure and misuse that have happened so far
    sent,       \* sent[c]: the signals c's _terminate_process call passed to os.kill
    polls,      \* polls[c]: what the polls of c's _terminate_process call observed
    environ,    \* os.environ of the process the fixture runs in, on EnvNames
    fixture,    \* the pubsub_emulator fixture: where it is, its locals old_host
                \* and old_project, the info it yields, os.environ as it found it
    call        \* the direct caller's _wait_for_port arguments, the message of the
                \* TimeoutError it got, and the pids its _terminate_process calls
                \* returned for

vars == <<cfg, pc, op, err, process, info, is_owner, st, lport, probed, tpid,
          held, lock, file, procs, nextPid, signals, pending, faults, sent, polls, call, environ, fixture>>

\* ------------------------------------------------------------ helpers

\* _is_pid_alive: os.kill(pid, 0) raises ProcessLookupError only for a
\* process that is gone.
IsPidAlive(pid) == pid \in Pids /\ procs[pid].state = "running"

\* A connect that succeeds whether or not anything listens.
Connectable_Always(p) == TRUE

\* socket.create_connection((host, port)) succeeds.
Connectable(p) == \E q \in Pids : procs[q].state = "running" /\ procs[q].listening /\ procs[q].port = p

\* _find_free_port: a port no socket is bound to at the moment of the call.
FreePorts == {p \in EphemeralPorts : ~Connectable(p)}

\* The configured port passed on as it is.
ResolvePort_Unresolved(c) == {cfg[c].port}

\* Lines 126 and 162: `_find_free_port() if self._port == 0 else self._port`,
\* the ports the expression can yield.
ResolvePort(c) == IF cfg[c].port = 0 THEN FreePorts ELSE {cfg[c].port}

\* _read_state: json.loads(path.read_text()), None on FileNotFoundError and
\* JSONDecodeError.
ReadState(f) == IF f.kind \in {"absent", "not_json", "json_null"} THEN NoneState ELSE f

\* read_text raising what _read_state does not catch.
ReadRaises(f) == f.kind = "not_utf8"

\* The exception state["pid"] / state["worker_count"] raises on a decoded
\* value that is not the record.
SubscriptError(s) ==
    CASE s.kind = "json_object_no_pid" -> "KeyError"
      [] s.kind = "json_non_object" -> "TypeError"
      [] OTHER -> "none"

\* read_text of an existing file may fail in the OS (EACCES, EIO): an OSError
\* that is not FileNotFoundError.
ReadFails(f) == f.kind # "absent"

Fault(f) == faults' = faults \cup {f}

\* ---------------------------------------------------------------- Init
InitInstances ==
    /\ pc = [c \in Callers |-> "idle"]
    /\ op = [c \in Callers |-> "none"]
    /\ err = [c \in Callers |-> "none"]
    /\ process = [c \in Callers |-> 0]
    /\ info = [c \in Callers |-> NoInfo]
    /\ is_owner = [c \in Callers |-> FALSE]
    /\ st = [c \in Callers |-> NoneState]
    /\ lport = [c \in Callers |-> 0]
    /\ probed = [c \in Callers |-> FALSE]
    /\ tpid = [c \in Callers |-> 0]
    /\ held = [c \in Callers |-> FALSE]
    /\ pending = [c \in Callers |-> {}]
    /\ sent = [c \in Callers |-> <<>>]
    /\ polls = [c \in Callers |-> {}]
    /\ call = NoCall
    /\ fixture = [pc |-> "setup", old_host |-> None, old_project |-> None,
                  info |-> NoInfo, before |-> environ]

\* No lock holder, no state file, no emulator process; neither of the
\* fixture's environment variables set.
InitCommon ==
    /\ environ = [n \in {} |-> ""]
    /\ InitInstances
    /\ lock = 0
    /\ file = AbsentFile
    /\ procs = [p \in Pids |-> Unborn]
    /\ nextPid = 1
    /\ signals = {}
    /\ faults = {}

\* The xdist workers are configured freely; the standalone instances are not
\* used.
Init ==
    /\ cfg \in [Callers -> Configs]
    /\ \A c \in Standalones \cup Direct : cfg[c] = DefaultConfig
    /\ InitCommon

\* The standalone instances are configured freely; no worker runs.
InitStandalone ==
    /\ cfg \in [Callers -> Configs]
    /\ \A c \in Workers \cup Direct : cfg[c] = DefaultConfig
    /\ InitCommon

\* The fixture's instance is configured freely, and the fixture may find
\* either environment variable set or unset.
InitFixture ==
    /\ cfg \in [Callers -> Configs]
    /\ \A c \in Workers \cup Direct : cfg[c] = DefaultConfig
    /\ environ \in UNION {[D -> EnvValues] : D \in SUBSET EnvNames}
    /\ InitInstances
    /\ lock = 0
    /\ file = AbsentFile
    /\ procs = [p \in Pids |-> Unborn]
    /\ nextPid = 1
    /\ signals = {}
    /\ faults = {}

\* The functions are called on processes that exist already: each pid is
\* that of no process, of an exited one, or of an emulator that has not
\* bound its port yet.
InitFunctions ==
    /\ cfg = [c \in Callers |-> DefaultConfig]
    /\ environ = [n \in {} |-> ""]
    /\ InitInstances
    /\ lock = 0
    /\ file = AbsentFile
    /\ procs \in [Pids -> {Unborn,
                           [Unborn EXCEPT !.state = "gone"],
                           [Unborn EXCEPT !.state = "running", !.host = "localhost",
                                          !.port = DefaultPort]}]
    /\ nextPid = MaxLaunches + 1
    /\ signals = {}
    /\ faults = {}

\* ------------------------------------------------------- the file lock

\* A lock that excludes nobody.
LockFree_NoMutex == TRUE

\* `with lock:` entered: FileLock.acquire blocks until no other process holds
\* the lock file.
LockFree == lock = 0

\* _write_state: path.write_text(json.dumps(state)).  It either replaces the
\* content, or raises OSError having left the file as it was or truncated.
WriteState(c, rec) ==
    \/ /\ file' = rec
       /\ err' = err
       /\ faults' = faults
    \/ /\ file' \in {file, FileShape("not_json")}
       /\ err' = [err EXCEPT ![c] = "OSError"]
       /\ Fault("io_error")

\* The lock released on the normal path only.
ReleasedLock_KeptOnError(c) == IF err[c] = "none" THEN 0 ELSE lock

\* Leaving `with lock:` (lines 148 and 188): FileLock.__exit__ releases the
\* lock whether the block returned or raised.
ReleasedLock(c) == IF lock = c THEN 0 ELSE lock

\* Line 152: state["worker_count"] += 1.
Joined(s) == [s EXCEPT !.worker_count = s.worker_count + 1]

\* The joiner answering with its own configuration.
JoinInfo_OwnConfig(c, s) == EmulatorInfo(cfg[c].host, cfg[c].port, cfg[c].project)

\* Lines 154-158: the info a joiner gets, from the stored record.
JoinInfo(c, s) == EmulatorInfo(s.host, s.port, s.project)

\* The stale dict reused: pid replaced, the rest kept, the count incremented.
FreshRecord_Merged(c) ==
    IF st[c].kind = "record"
    THEN [st[c] EXCEPT !.pid = process[c], !.worker_count = st[c].worker_count + 1]
    ELSE StateRecord(process[c], cfg[c].host, lport[c], cfg[c].project, 1)

\* Lines 171-177: the record a launcher writes.
FreshRecord(c) == StateRecord(process[c], cfg[c].host, lport[c], cfg[c].project, 1)

\* The early return left out.
NothingToStop_Never(s) == FALSE

\* Line 190: `if state is None: return`.
NothingToStop(s) == s.kind = "none"

\* Line 192: state["worker_count"] -= 1.
Left(s) == [s EXCEPT !.worker_count = s.worker_count - 1]

\* The comparison slipped to `< 0`.
LastLeaver_OffByOne(s) == s.worker_count < 0

\* Line 193: `if state["worker_count"] <= 0`.
LastLeaver(s) == s.worker_count <= 0

\* The guard left out.
HasHandle_Always(c) == TRUE

\* Line 137: `if self._process is not None`.
HasHandle(c) == process[c] # 0

\* ------------------------------------------------------- start(), shared

\* Lines 147-148, the lock held by another process: FileLock is built with
\* its default timeout of -1, so acquire() polls the lock file until it gets
\* it and never gives up.  (Spec does not tell a call waiting here from a
\* call not made yet; SpecForeignLock does.)
StartBlocked(c) ==
    /\ c \in Workers
    /\ pc[c] = "idle"
    /\ ~LockFree
    /\ pc' = [pc EXCEPT ![c] = "s_lock"]
    /\ UNCHANGED <<sent, polls, call, environ, fixture, cfg, op, err, process, info,
                   is_owner, st, lport, probed, tpid, held, lock, file, procs, nextPid,
                   signals, pending, faults>>

\* start() -> _start_shared up to `with lock:` (lines 111-148).
StartAcquire(c) ==
    /\ c \in Workers
    /\ pc[c] \in {"idle", "s_lock"}
    /\ LockFree
    /\ lock' = c
    /\ pc' = [pc EXCEPT ![c] = "s_read"]
    /\ UNCHANGED <<sent, polls, call, environ, fixture, cfg, op, err, process, info,
                   is_owner, st, lport, probed, tpid, held, file, procs, nextPid, signals,
                   pending, faults>>

\* Lines 149-150: read the state and decide between joining and launching.
StartRead(c) ==
    /\ pc[c] = "s_read"
    /\ \/ /\ ReadRaises(file)
          /\ err' = [err EXCEPT ![c] = "UnicodeDecodeError"]
          /\ pc' = [pc EXCEPT ![c] = "s_exit"]
          /\ UNCHANGED <<st, faults>>
       \/ /\ ReadFails(file)
          /\ err' = [err EXCEPT ![c] = "OSError"]
          /\ pc' = [pc EXCEPT ![c] = "s_exit"]
          /\ Fault("io_error")
          /\ UNCHANGED st
       \/ /\ ~ReadRaises(file)
          /\ st' = [st EXCEPT ![c] = ReadState(file)]
          /\ LET s == ReadState(file) IN
             IF s.kind = "none"
             THEN /\ pc' = [pc EXCEPT ![c] = "s_launch"]
                  /\ err' = err
             ELSE IF SubscriptError(s) # "none"
             THEN /\ pc' = [pc EXCEPT ![c] = "s_exit"]
                  /\ err' = [err EXCEPT ![c] = SubscriptError(s)]
             ELSE /\ pc' = [pc EXCEPT ![c] = IF IsPidAlive(s.pid) THEN "s_join" ELSE "s_launch"]
                  /\ err' = err
          /\ UNCHANGED faults
    /\ UNCHANGED <<sent, polls, call, environ, fixture, cfg, op, process, info, is_owner,
                   lport, probed, tpid, held, lock, file, procs, nextPid, signals, pending>>

\* Lines 151-159: join the existing emulator.
StartJoin(c) ==
    /\ pc[c] = "s_join"
    /\ st' = [st EXCEPT ![c] = Joined(st[c])]
    /\ WriteState(c, Joined(st[c]))
    /\ IF err'[c] = "none"
       THEN info' = [info EXCEPT ![c] = JoinInfo(c, Joined(st[c]))]
       ELSE info' = info
    /\ pc' = [pc EXCEPT ![c] = "s_exit"]
    /\ UNCHANGED <<sent, polls, call, environ, fixture, cfg, op, process, is_owner, lport,
                   probed, tpid, held, lock, procs, nextPid, signals, pending>>

\* Lines 126-128 and 162-164: resolve the port, launch, record the handle.
\* subprocess.Popen either raises (no gcloud, spawn error) or returns the
\* handle of a new process that is not yet listening.
Launch(c) ==
    \/ /\ nextPid <= MaxLaunches
       /\ \E p \in ResolvePort(c) :
             /\ lport' = [lport EXCEPT ![c] = p]
             /\ procs' = [procs EXCEPT ![nextPid] =
                    [state |-> "running", host |-> cfg[c].host, port |-> p,
                     project |-> cfg[c].project, listening |-> FALSE]]
       /\ process' = [process EXCEPT ![c] = nextPid]
       /\ is_owner' = [is_owner EXCEPT ![c] = TRUE]
       /\ nextPid' = nextPid + 1
       /\ UNCHANGED <<err, faults>>
    \/ /\ err' = [err EXCEPT ![c] = "FileNotFoundError"]
       /\ Fault("launch_failed")
       /\ UNCHANGED <<lport, procs, process, is_owner, nextPid>>

StartLaunch(c) ==
    /\ pc[c] = "s_launch"
    /\ Launch(c)
    /\ pc' = [pc EXCEPT ![c] = IF err'[c] = "none" THEN "s_wait" ELSE "s_exit"]
    /\ UNCHANGED <<sent, polls, call, environ, fixture, cfg, op, info, st, probed, tpid,
                   held, lock, file, signals, pending>>

\* The readiness wait left out.
Ready_Unawaited(c) == TRUE

\* Lines 129 and 165: _wait_for_port(self._host, port, self._timeout)
\* returns, which it does on a connect to the port that succeeds.
Ready(c) == Connectable(lport[c])

\* Lines 165-179, readiness observed: _wait_for_port returns once a connect
\* succeeds; then the info is set and the fresh record is written.
StartReady(c) ==
    /\ pc[c] = "s_wait"
    /\ Ready(c)
    /\ probed' = [probed EXCEPT ![c] = TRUE]
    /\ info' = [info EXCEPT ![c] = EmulatorInfo(cfg[c].host, lport[c], cfg[c].project)]
    /\ WriteState(c, FreshRecord(c))
    /\ pc' = [pc EXCEPT ![c] = "s_exit"]
    /\ UNCHANGED <<sent, polls, call, environ, fixture, cfg, op, process, is_owner, st,
                   lport, tpid, held, lock, procs, nextPid, signals, pending>>

\* The record written although readiness was never observed.
StartTimeout_WritesRecord(c) ==
    /\ pc[c] = "s_wait"
    /\ probed' = [probed EXCEPT ![c] = TRUE]
    /\ err' = [err EXCEPT ![c] = "TimeoutError"]
    /\ Fault("timeout")
    /\ file' = StateRecord(process[c], cfg[c].host, lport[c], cfg[c].project, 1)
    /\ pc' = [pc EXCEPT ![c] = "s_exit"]
    /\ UNCHANGED <<sent, polls, call, environ, fixture, cfg, op, process, info, is_owner,
                   st, lport, tpid, held, lock, procs, nextPid, signals, pending>>

\* Lines 165 and 52-60: the deadline passes before a connect succeeds;
\* _wait_for_port raises TimeoutError and nothing after line 165 runs.
StartTimeout(c) ==
    /\ pc[c] = "s_wait"
    /\ probed' = [probed EXCEPT ![c] = TRUE]
    /\ err' = [err EXCEPT ![c] = "TimeoutError"]
    /\ Fault("timeout")
    /\ pc' = [pc EXCEPT ![c] = "s_exit"]
    /\ UNCHANGED <<sent, polls, call, environ, fixture, cfg, op, process, info, is_owner,
                   st, lport, tpid, held, lock, file, procs, nextPid, signals, pending>>

\* Leaving `with lock:` in _start_shared, by return or by exception.
StartExit(c) ==
    /\ pc[c] = "s_exit"
    /\ lock' = ReleasedLock(c)
    /\ pc' = [pc EXCEPT ![c] = IF err[c] = "none" THEN "started" ELSE "failed"]
    /\ held' = [held EXCEPT ![c] = (err[c] = "none")]
    /\ err' = [err EXCEPT ![c] = "none"]
    /\ st' = [st EXCEPT ![c] = NoneState]
    /\ lport' = [lport EXCEPT ![c] = 0]
    /\ probed' = [probed EXCEPT ![c] = FALSE]
    /\ UNCHANGED <<sent, polls, call, environ, fixture, cfg, op, process, info, is_owner,
                   tpid, file, procs, nextPid, signals, pending, faults>>

\* -------------------------------------------------------- stop(), shared

\* Lines 187-188, the lock held by another process: acquire() waits.
StopBlocked(c) ==
    /\ c \in Workers
    /\ pc[c] = "started"
    /\ ~LockFree
    /\ pc' = [pc EXCEPT ![c] = "p_lock"]
    /\ UNCHANGED <<sent, polls, call, environ, fixture, cfg, op, err, process, info,
                   is_owner, st, lport, probed, tpid, held, lock, file, procs, nextPid,
                   signals, pending, faults>>

\* stop() -> _stop_shared up to `with lock:` (lines 117-188).
StopAcquire(c) ==
    /\ c \in Workers
    /\ pc[c] \in {"started", "p_lock"}
    /\ LockFree
    /\ lock' = c
    /\ pc' = [pc EXCEPT ![c] = "p_read"]
    /\ UNCHANGED <<sent, polls, call, environ, fixture, cfg, op, err, process, info,
                   is_owner, st, lport, probed, tpid, held, file, procs, nextPid, signals,
                   pending, faults>>

\* Line 189: state = self._read_state(state_path).
StopRead(c) ==
    /\ pc[c] = "p_read"
    /\ \/ /\ ReadRaises(file)
          /\ err' = [err EXCEPT ![c] = "UnicodeDecodeError"]
          /\ pc' = [pc EXCEPT ![c] = "p_exit"]
          /\ UNCHANGED <<st, faults>>
       \/ /\ ReadFails(file)
          /\ err' = [err EXCEPT ![c] = "OSError"]
          /\ pc' = [pc EXCEPT ![c] = "p_exit"]
          /\ Fault("io_error")
          /\ UNCHANGED st
       \/ /\ ~ReadRaises(file)
          /\ st' = [st EXCEPT ![c] = ReadState(file)]
          /\ pc' = [pc EXCEPT ![c] = "p_dec"]
          /\ UNCHANGED <<err, faults>>
    /\ UNCHANGED <<sent, polls, call, environ, fixture, cfg, op, process, info, is_owner,
                   lport, probed, tpid, held, lock, file, procs, nextPid, signals, pending>>

\* Lines 190-197: nothing to do without a state; otherwise decrement, and
\* either go on to terminate the recorded pid or write the count back.
StopDecide(c) ==
    /\ pc[c] = "p_dec"
    /\ IF NothingToStop(st[c])
       THEN /\ pc' = [pc EXCEPT ![c] = "p_exit"]
            /\ UNCHANGED <<st, tpid, file, err, faults>>
       ELSE IF SubscriptError(st[c]) # "none"
       THEN /\ pc' = [pc EXCEPT ![c] = "p_exit"]
            /\ err' = [err EXCEPT ![c] = SubscriptError(st[c])]
            /\ UNCHANGED <<st, tpid, file, faults>>
       ELSE /\ st' = [st EXCEPT ![c] = Left(st[c])]
            /\ IF LastLeaver(Left(st[c]))
               THEN /\ tpid' = [tpid EXCEPT ![c] = st[c].pid]
                    /\ pc' = [pc EXCEPT ![c] = "t_term"]
                    /\ UNCHANGED <<file, err, faults>>
               ELSE /\ WriteState(c, Left(st[c]))
                    /\ pc' = [pc EXCEPT ![c] = "p_exit"]
                    /\ tpid' = tpid
    /\ UNCHANGED <<sent, polls, call, environ, fixture, cfg, op, process, info, is_owner,
                   lport, probed, held, lock, procs, nextPid, signals, pending>>

\* Line 195: state_path.unlink(missing_ok=True).
StopUnlink(c) ==
    /\ pc[c] = "p_unlink"
    /\ file' = AbsentFile
    /\ pc' = [pc EXCEPT ![c] = "p_exit"]
    /\ sent' = [sent EXCEPT ![c] = <<>>]
    /\ polls' = [polls EXCEPT ![c] = {}]
    /\ UNCHANGED <<call, environ, fixture, cfg, op, err, process, info, is_owner, st, lport,
                   probed, tpid, held, lock, procs, nextPid, signals, pending, faults>>

\* Leaving `with lock:` in _stop_shared, by return or by exception.
StopExit(c) ==
    /\ pc[c] = "p_exit"
    /\ lock' = ReleasedLock(c)
    /\ pc' = [pc EXCEPT ![c] = "stopped"]
    /\ held' = [held EXCEPT ![c] = FALSE]
    /\ err' = [err EXCEPT ![c] = "none"]
    /\ st' = [st EXCEPT ![c] = NoneState]
    /\ tpid' = [tpid EXCEPT ![c] = 0]
    /\ UNCHANGED <<sent, polls, call, environ, fixture, cfg, op, process, info, is_owner,
                   lport, probed, file, procs, nextPid, signals, pending, faults>>

\* ------------------------------------------------- _terminate_process

\* Where the caller of _terminate_process continues: line 195 in
\* _stop_shared, line 139 in _stop_standalone, the return to a direct caller.
AfterTerminate(c) ==
    IF c \in Workers THEN "p_unlink" ELSE IF c \in Standalones THEN "a_clear" ELSE "idle"

\* What a direct call leaves behind when it returns.
Returned(c) == IF c \in Direct THEN [call EXCEPT !.terminated = @ \cup {tpid[c]}] ELSE call

\* os.kill(pid, sig) raises ProcessLookupError for a process that is gone.
KillError(pid) == IF IsPidAlive(pid) THEN "none" ELSE "ProcessLookupError"

\* No except clause around os.kill.
Uncaught_Everything(e) == e

\* Lines 67-68 and 76-77: `except ProcessLookupError` swallows that error.
Uncaught(e) == IF e = "ProcessLookupError" THEN "none" ELSE e

\* Lines 65-68: os.kill(pid, SIGTERM); ProcessLookupError returns at once.
TermSend(c) ==
    /\ pc[c] = "t_term"
    /\ sent' = [sent EXCEPT ![c] = Append(sent[c], "SIGTERM")]
    /\ err' = [err EXCEPT ![c] = Uncaught(KillError(tpid[c]))]
    /\ IF IsPidAlive(tpid[c])
       THEN /\ signals' = signals \cup {<<tpid[c], "SIGTERM">>}
            /\ pc' = [pc EXCEPT ![c] = "t_poll"]
            /\ call' = call
       ELSE /\ signals' = signals
            /\ pc' = [pc EXCEPT ![c] = AfterTerminate(c)]
            /\ call' = Returned(c)
    /\ UNCHANGED <<polls, environ, fixture, cfg, op, process, info, is_owner, st, lport,
                   probed, tpid, held, lock, file, procs, nextPid, pending, faults>>

\* The poll that finds the process gone falling out of the loop.
AfterPollGone_FallsThrough(c) == "t_kill"

\* Line 72: `return` out of the polling loop.
AfterPollGone(c) == AfterTerminate(c)

\* Lines 70-73: a poll before the deadline finds the process alive, and the
\* loop sleeps.
TermPollAlive(c) ==
    /\ pc[c] = "t_poll"
    /\ IsPidAlive(tpid[c])
    /\ polls' = [polls EXCEPT ![c] = polls[c] \cup {"alive"}]
    /\ UNCHANGED <<sent, call, environ, fixture, cfg, pc, op, err, process, info, is_owner,
                   st, lport, probed, tpid, held, lock, file, procs, nextPid, signals,
                   pending, faults>>

\* Lines 70-72: a poll before the deadline finds the process gone.
TermPollGone(c) ==
    /\ pc[c] = "t_poll"
    /\ ~IsPidAlive(tpid[c])
    /\ polls' = [polls EXCEPT ![c] = polls[c] \cup {"gone"}]
    /\ pc' = [pc EXCEPT ![c] = AfterPollGone(c)]
    /\ call' = IF AfterPollGone(c) = AfterTerminate(c) THEN Returned(c) ELSE call
    /\ UNCHANGED <<sent, environ, fixture, cfg, op, err, process, info, is_owner, st, lport,
                   probed, tpid, held, lock, file, procs, nextPid, signals, pending,
                   faults>>

\* Line 70: the deadline passes and the loop ends.
TermDeadline(c) ==
    /\ pc[c] = "t_poll"
    /\ pc' = [pc EXCEPT ![c] = "t_kill"]
    /\ UNCHANGED <<sent, polls, call, environ, fixture, cfg, op, err, process, info,
                   is_owner, st, lport, probed, tpid, held, lock, file, procs, nextPid,
                   signals, pending, faults>>

\* Lines 74-77: os.kill(pid, SIGKILL), ProcessLookupError ignored.  A
\* process cannot survive SIGKILL.
TermKill(c) ==
    /\ pc[c] = "t_kill"
    /\ sent' = [sent EXCEPT ![c] = Append(sent[c], "SIGKILL")]
    /\ err' = [err EXCEPT ![c] = Uncaught(KillError(tpid[c]))]
    /\ IF IsPidAlive(tpid[c])
       THEN /\ signals' = signals \cup {<<tpid[c], "SIGKILL">>}
            /\ procs' = [procs EXCEPT ![tpid[c]].state = "gone", ![tpid[c]].listening = FALSE]
       ELSE UNCHANGED <<signals, procs>>
    /\ pc' = [pc EXCEPT ![c] = AfterTerminate(c)]
    /\ call' = Returned(c)
    /\ UNCHANGED <<polls, environ, fixture, cfg, op, process, info, is_owner, st, lport,
                   probed, tpid, held, lock, file, nextPid, pending, faults>>

\* _terminate_process(p) called on its own.
TerminateCall(c, p) ==
    /\ c \in Direct
    /\ pc[c] = "idle"
    /\ op' = [op EXCEPT ![c] = "terminate"]
    /\ err' = [err EXCEPT ![c] = "none"]
    /\ tpid' = [tpid EXCEPT ![c] = p]
    /\ sent' = [sent EXCEPT ![c] = <<>>]
    /\ polls' = [polls EXCEPT ![c] = {}]
    /\ pc' = [pc EXCEPT ![c] = "t_term"]
    /\ UNCHANGED <<call, environ, fixture, cfg, process, info, is_owner, st, lport, probed,
                   held, lock, file, procs, nextPid, signals, pending, faults>>

\* ----------------------------------------------------- _wait_for_port

\* Line 59: the message of the TimeoutError.
TimeoutMessage(t, h, p) == <<"Emulator did not start within ", t, "s on ", h, ":", p>>

\* _wait_for_port(h, p, t) called on its own; line 52 sets the deadline.
WaitCall(c, h, p, t) ==
    /\ c \in Direct
    /\ pc[c] = "idle"
    /\ op' = [op EXCEPT ![c] = "wait"]
    /\ err' = [err EXCEPT ![c] = "none"]
    /\ probed' = [probed EXCEPT ![c] = FALSE]
    /\ call' = [call EXCEPT !.host = h, !.port = p, !.timeout = t, !.msg = <<>>]
    /\ pc' = [pc EXCEPT ![c] = "w_poll"]
    /\ UNCHANGED <<sent, polls, environ, fixture, cfg, process, info, is_owner, st, lport,
                   tpid, held, lock, file, procs, nextPid, signals, pending, faults>>

\* Lines 54-58: a connect attempt before the deadline is refused; sleep.
WaitRefused(c) ==
    /\ pc[c] = "w_poll"
    /\ ~Connectable(call.port)
    /\ probed' = [probed EXCEPT ![c] = TRUE]
    /\ UNCHANGED <<sent, polls, call, environ, fixture, cfg, pc, op, err, process, info,
                   is_owner, st, lport, tpid, held, lock, file, procs, nextPid, signals,
                   pending, faults>>

\* Lines 54-56: a connect attempt before the deadline succeeds; return.
WaitConnected(c) ==
    /\ pc[c] = "w_poll"
    /\ Connectable(call.port)
    /\ probed' = [probed EXCEPT ![c] = TRUE]
    /\ pc' = [pc EXCEPT ![c] = "idle"]
    /\ UNCHANGED <<sent, polls, call, environ, fixture, cfg, op, err, process, info,
                   is_owner, st, lport, tpid, held, lock, file, procs, nextPid, signals,
                   pending, faults>>

\* Lines 53 and 59-60: the deadline has passed; raise TimeoutError.
WaitDeadline(c) ==
    /\ pc[c] = "w_poll"
    /\ err' = [err EXCEPT ![c] = "TimeoutError"]
    /\ call' = [call EXCEPT !.msg = TimeoutMessage(call.timeout, call.host, call.port)]
    /\ pc' = [pc EXCEPT ![c] = "idle"]
    /\ UNCHANGED <<sent, polls, environ, fixture, cfg, op, process, info, is_owner, st,
                   lport, probed, tpid, held, lock, file, procs, nextPid, signals, pending,
                   faults>>

\* ---------------------------------------------------------- standalone

\* start() -> _start_standalone, lines 126-128: resolve the port, launch,
\* keep the handle.  A launch that raises leaves the instance as it was.
StandaloneLaunch(c) ==
    /\ c \in Standalones
    /\ pc[c] = "idle"
    /\ op' = [op EXCEPT ![c] = "start"]
    /\ probed' = [probed EXCEPT ![c] = FALSE]
    /\ \/ /\ nextPid <= MaxLaunches
          /\ \E p \in ResolvePort(c) :
                /\ lport' = [lport EXCEPT ![c] = p]
                /\ procs' = [procs EXCEPT ![nextPid] =
                       [state |-> "running", host |-> cfg[c].host, port |-> p,
                        project |-> cfg[c].project, listening |-> FALSE]]
          /\ process' = [process EXCEPT ![c] = nextPid]
          /\ is_owner' = [is_owner EXCEPT ![c] = TRUE]
          /\ pending' = [pending EXCEPT ![c] = pending[c] \cup {nextPid}]
          /\ nextPid' = nextPid + 1
          /\ err' = [err EXCEPT ![c] = "none"]
          /\ pc' = [pc EXCEPT ![c] = "a_wait"]
          /\ UNCHANGED faults
       \/ /\ err' = [err EXCEPT ![c] = "FileNotFoundError"]
          /\ Fault("launch_failed")
          /\ UNCHANGED <<pc, lport, procs, process, is_owner, nextPid, pending>>
    /\ UNCHANGED <<sent, polls, call, environ, fixture, cfg, info, st, tpid, held, lock,
                   file, signals>>

\* Lines 129-133, readiness observed.
StandaloneReady(c) ==
    /\ pc[c] = "a_wait"
    /\ Ready(c)
    /\ probed' = [probed EXCEPT ![c] = TRUE]
    /\ info' = [info EXCEPT ![c] = EmulatorInfo(cfg[c].host, lport[c], cfg[c].project)]
    /\ pc' = [pc EXCEPT ![c] = "started"]
    /\ held' = [held EXCEPT ![c] = TRUE]
    /\ UNCHANGED <<sent, polls, call, environ, fixture, cfg, op, err, process, is_owner, st,
                   lport, tpid, lock, file, procs, nextPid, signals, pending, faults>>

\* Line 129 raising TimeoutError out of start().
StandaloneTimeout(c) ==
    /\ pc[c] = "a_wait"
    /\ probed' = [probed EXCEPT ![c] = TRUE]
    /\ err' = [err EXCEPT ![c] = "TimeoutError"]
    /\ Fault("timeout")
    /\ pc' = [pc EXCEPT ![c] = "idle"]
    /\ UNCHANGED <<sent, polls, call, environ, fixture, cfg, op, process, info, is_owner,
                   st, lport, tpid, held, lock, file, procs, nextPid, signals, pending>>

\* stop() -> _stop_standalone, lines 137-138: with a handle, go on to
\* terminate it; without one, return.
StandaloneStop(c) ==
    /\ c \in Standalones
    /\ pc[c] \in {"idle", "started"}
    /\ op' = [op EXCEPT ![c] = "stop"]
    /\ err' = [err EXCEPT ![c] = "none"]
    /\ IF HasHandle(c)
       THEN /\ tpid' = [tpid EXCEPT ![c] = process[c]]
            /\ pc' = [pc EXCEPT ![c] = "t_term"]
            /\ UNCHANGED <<held, pending>>
       ELSE /\ tpid' = tpid
            /\ pc' = [pc EXCEPT ![c] = "idle"]
            /\ held' = [held EXCEPT ![c] = FALSE]
            /\ pending' = [pending EXCEPT ![c] = {}]
    /\ UNCHANGED <<sent, polls, call, environ, fixture, cfg, process, info, is_owner, st,
                   lport, probed, lock, file, procs, nextPid, signals, faults>>

\* Line 139: self._process = None, and stop() returns.
StandaloneClear(c) ==
    /\ pc[c] = "a_clear"
    /\ process' = [process EXCEPT ![c] = 0]
    /\ pc' = [pc EXCEPT ![c] = "idle"]
    /\ held' = [held EXCEPT ![c] = FALSE]
    /\ tpid' = [tpid EXCEPT ![c] = 0]
    /\ pending' = [pending EXCEPT ![c] = {}]
    /\ sent' = [sent EXCEPT ![c] = <<>>]
    /\ polls' = [polls EXCEPT ![c] = {}]
    /\ UNCHANGED <<call, environ, fixture, cfg, op, err, info, is_owner, st, lport, probed,
                   lock, file, procs, nextPid, signals, faults>>

\* ------------------------------------------- the pubsub_emulator fixture

\* EmulatorInfo.host_port (line 28 of _emulator.py).
HostPort(i) == i.host \o ":" \o ToString(i.port)

\* os.environ.get(name).
EnvGet(env, name) == IF name \in DOMAIN env THEN [set |-> TRUE, value |-> env[name]] ELSE None

\* os.environ[name] = value.
EnvSet(env, name, value) ==
    [n \in DOMAIN env \cup {name} |-> IF n = name THEN value ELSE env[n]]

\* os.environ.pop(name, None).
EnvPop(env, name) == [n \in DOMAIN env \ {name} |-> env[n]]

\* A variable that was unset left as the fixture set it.
Restore_NoPop(env, name, old) == IF old = None THEN env ELSE EnvSet(env, name, old.value)

\* Lines 113-116 and 117-120: pop the variable if it was unset, else put the
\* old value back.
Restore(env, name, old) ==
    IF old = None THEN EnvPop(env, name) ELSE EnvSet(env, name, old.value)

\* Line 102: info = emulator.start(), up to the launch.
FixtureStart(c) ==
    /\ fixture.pc = "setup"
    /\ op[c] = "none"
    /\ StandaloneLaunch(c)

\* Line 102 raising: the fixture ends in its setup.
FixtureStartRaised(c) ==
    /\ c \in Standalones
    /\ fixture.pc = "setup"
    /\ op[c] = "start" /\ pc[c] = "idle" /\ err[c] # "none"
    /\ fixture' = [fixture EXCEPT !.pc = "error"]
    /\ UNCHANGED <<sent, polls, call, environ, cfg, pc, op, err, process, info, is_owner,
                   st, lport, probed, tpid, held, lock, file, procs, nextPid, signals,
                   pending, faults>>

\* Lines 102-110, start() having returned: keep the old values, set both
\* variables, yield info.
FixtureSetEnv(c) ==
    /\ c \in Standalones
    /\ fixture.pc = "setup"
    /\ pc[c] = "started"
    /\ fixture' = [fixture EXCEPT !.pc = "active", !.info = info[c],
                       !.old_host = EnvGet(environ, "PUBSUB_EMULATOR_HOST"),
                       !.old_project = EnvGet(environ, "PUBSUB_PROJECT_ID")]
    /\ environ' = EnvSet(EnvSet(environ, "PUBSUB_EMULATOR_HOST", HostPort(info[c])),
                         "PUBSUB_PROJECT_ID", info[c].project)
    /\ UNCHANGED <<sent, polls, call, cfg, pc, op, err, process, info, is_owner, st, lport,
                   probed, tpid, held, lock, file, procs, nextPid, signals, pending,
                   faults>>

\* Lines 112-120: the teardown restores both variables.
FixtureRestoreEnv ==
    /\ fixture.pc = "active"
    /\ environ' = Restore(Restore(environ, "PUBSUB_EMULATOR_HOST", fixture.old_host),
                          "PUBSUB_PROJECT_ID", fixture.old_project)
    /\ fixture' = [fixture EXCEPT !.pc = "restored"]
    /\ UNCHANGED <<sent, polls, call, cfg, pc, op, err, process, info, is_owner, st, lport,
                   probed, tpid, held, lock, file, procs, nextPid, signals, pending,
                   faults>>

\* Line 122: emulator.stop().
FixtureStop(c) ==
    /\ fixture.pc = "restored"
    /\ op[c] = "start"
    /\ StandaloneStop(c)

\* ----------------------------------------------------- the environment

\* The emulator binds its --host-port and starts accepting connections.
EmulatorListens(p) ==
    /\ procs[p].state = "running"
    /\ ~procs[p].listening
    /\ ~Connectable(procs[p].port)
    /\ procs' = [procs EXCEPT ![p].listening = TRUE]
    /\ UNCHANGED <<sent, polls, call, environ, fixture, cfg, pc, op, err, process, info,
                   is_owner, st, lport, probed, tpid, held, lock, file, nextPid, signals,
                   pending, faults>>

\* The emulator dies on its own or is killed from outside.
EmulatorCrash(p) ==
    /\ procs[p].state = "running"
    /\ procs' = [procs EXCEPT ![p].state = "gone", ![p].listening = FALSE]
    /\ Fault("crash")
    /\ UNCHANGED <<sent, polls, call, environ, fixture, cfg, pc, op, err, process, info,
                   is_owner, st, lport, probed, tpid, held, lock, file, nextPid, signals,
                   pending>>

\* The emulator exits in response to a SIGTERM it was sent.
EmulatorExits(p) ==
    /\ procs[p].state = "running"
    /\ <<p, "SIGTERM">> \in signals
    /\ procs' = [procs EXCEPT ![p].state = "gone", ![p].listening = FALSE]
    /\ UNCHANGED <<sent, polls, call, environ, fixture, cfg, pc, op, err, process, info,
                   is_owner, st, lport, probed, tpid, held, lock, file, nextPid, signals,
                   pending, faults>>

\* Another process takes the lock file while it is free, and keeps it: it
\* hangs, or is stopped, while holding it.
ForeignHolds ==
    /\ lock = 0
    /\ lock' = Foreign
    /\ UNCHANGED <<sent, polls, call, environ, fixture, cfg, pc, op, err, process, info,
                   is_owner, st, lport, probed, tpid, held, file, procs, nextPid, signals,
                   pending, faults>>

\* Something other than start() and stop() leaves undecodable content in
\* the state file.
CorruptStateFile(k) ==
    /\ k \in MalformedKinds
    /\ "corrupt" \notin faults
    /\ file' = FileShape(k)
    /\ Fault("corrupt")
    /\ UNCHANGED <<sent, polls, call, environ, fixture, cfg, pc, op, err, process, info,
                   is_owner, st, lport, probed, tpid, held, lock, procs, nextPid, signals,
                   pending>>

\* ----------------------------------------------------- specifications
Next ==
    \/ \E c \in Workers : StartAcquire(c)
    \/ \E c \in Workers : StartRead(c)
    \/ \E c \in Workers : StartJoin(c)
    \/ \E c \in Workers : StartLaunch(c)
    \/ \E c \in Workers : StartReady(c)
    \/ \E c \in Workers : StartTimeout(c)
    \/ \E c \in Workers : StartExit(c)
    \/ \E c \in Workers : StopAcquire(c)
    \/ \E c \in Workers : StopRead(c)
    \/ \E c \in Workers : StopDecide(c)
    \/ \E c \in Workers : StopUnlink(c)
    \/ \E c \in Workers : StopExit(c)
    \/ \E c \in Workers : TermSend(c)
    \/ \E c \in Workers : TermPollAlive(c)
    \/ \E c \in Workers : TermPollGone(c)
    \/ \E c \in Workers : TermDeadline(c)
    \/ \E c \in Workers : TermKill(c)
    \/ \E p \in Pids : EmulatorListens(p)
    \/ \E p \in Pids : EmulatorCrash(p)
    \/ \E p \in Pids : EmulatorExits(p)

Spec == Init /\ [][Next]_vars

\* The workers, with a state file that something else may spoil.
NextCorrupt ==
    \/ Next
    \/ \E k \in MalformedKinds : CorruptStateFile(k)

SpecCorrupt == Init /\ [][NextCorrupt]_vars

\* The workers, the calls that wait for the lock told apart, and a lock
\* holder that never lets go.
NextForeignLock ==
    \/ Next
    \/ \E c \in Workers : StartBlocked(c)
    \/ \E c \in Workers : StopBlocked(c)
    \/ ForeignHolds

SpecForeignLock == Init /\ [][NextForeignLock]_vars

NextStandalone ==
    \/ \E c \in Standalones : StandaloneLaunch(c)
    \/ \E c \in Standalones : StandaloneReady(c)
    \/ \E c \in Standalones : StandaloneTimeout(c)
    \/ \E c \in Standalones : StandaloneStop(c)
    \/ \E c \in Standalones : StandaloneClear(c)
    \/ \E c \in Standalones : TermSend(c)
    \/ \E c \in Standalones : TermPollAlive(c)
    \/ \E c \in Standalones : TermPollGone(c)
    \/ \E c \in Standalones : TermDeadline(c)
    \/ \E c \in Standalones : TermKill(c)
    \/ \E p \in Pids : EmulatorListens(p)
    \/ \E p \in Pids : EmulatorCrash(p)
    \/ \E p \in Pids : EmulatorExits(p)

SpecStandalone == InitStandalone /\ [][NextStandalone]_vars

\* The fixture without xdist: one standalone instance, started once and
\* stopped once in the teardown.  Nothing but the fixture writes the two
\* environment variables.
NextFixture ==
    \/ \E c \in Standalones : FixtureStart(c)
    \/ \E c \in Standalones : FixtureStartRaised(c)
    \/ \E c \in Standalones : FixtureSetEnv(c)
    \/ FixtureRestoreEnv
    \/ \E c \in Standalones : FixtureStop(c)
    \/ \E c \in Standalones : StandaloneReady(c)
    \/ \E c \in Standalones : StandaloneTimeout(c)
    \/ \E c \in Standalones : StandaloneClear(c)
    \/ \E c \in Standalones : TermSend(c)
    \/ \E c \in Standalones : TermPollAlive(c)
    \/ \E c \in Standalones : TermPollGone(c)
    \/ \E c \in Standalones : TermDeadline(c)
    \/ \E c \in Standalones : TermKill(c)
    \/ \E p \in Pids : EmulatorListens(p)
    \/ \E p \in Pids : EmulatorCrash(p)
    \/ \E p \in Pids : EmulatorExits(p)

SpecFixture == InitFixture /\ [][NextFixture]_vars

\* _terminate_process and _wait_for_port called directly.
NextFunctions ==
    \/ \E c \in Direct, p \in Pids : TerminateCall(c, p)
    \/ \E c \in Direct : TermSend(c)
    \/ \E c \in Direct : TermPollAlive(c)
    \/ \E c \in Direct : TermPollGone(c)
    \/ \E c \in Direct : TermDeadline(c)
    \/ \E c \in Direct : TermKill(c)
    \/ \E c \in Direct, h \in Hosts, p \in Ports, t \in Timeouts : WaitCall(c, h, p, t)
    \/ \E c \in Direct : WaitRefused(c)
    \/ \E c \in Direct : WaitConnected(c)
    \/ \E c \in Direct : WaitDeadline(c)
    \/ \E p \in Pids : EmulatorListens(p)
    \/ \E p \in Pids : EmulatorCrash(p)
    \/ \E p \in Pids : EmulatorExits(p)

SpecFunctions == InitFunctions /\ [][NextFunctions]_vars

\* The clock advances and os.kill returns: a call that can pass its
\* deadline or send its signal eventually does.
SpecFunctionsFair ==
    /\ SpecFunctions
    /\ \A c \in Direct :
          /\ WF_vars(TermSend(c))
          /\ WF_vars(TermDeadline(c))
          /\ WF_vars(TermKill(c))
          /\ WF_vars(WaitDeadline(c))

\* ------------------------------------------------------------- claims

\* Processes launched so far, and those of them still running.
LaunchCount == nextPid - 1
RunningPids == {p \in Pids : procs[p].state = "running"}
\* Workers whose start() returned and whose stop() has not.
Outstanding == {c \in Workers : held[c]}
\* Some start() or stop() call has raised.
CallFailed == faults \cap {"launch_failed", "timeout", "io_error"} # {}

C2_ReferenceCount ==
    (faults = {} /\ lock = 0 /\ LaunchCount >= 1) =>
        /\ Cardinality(Outstanding) = 0 => (file = AbsentFile /\ RunningPids = {})
        /\ Cardinality(Outstanding) = 1 =>
              /\ Cardinality(RunningPids) = 1
              /\ file.kind = "record"
              /\ file.worker_count = 1
              /\ file.pid \in RunningPids

\* Every worker has started and stopped; the emulator they shared is gone.
C2_Witness ==
    /\ \A c \in Workers : pc[c] = "stopped"
    /\ faults = {}
    /\ LaunchCount = 1
    /\ procs[1].state = "gone"
    /\ file = AbsentFile

\* C3: no worker sends a termination signal to the recorded emulator while
\* another worker that started successfully has not yet stopped.
C3_TeardownOnlyByLastLeaver ==
    [][\A c \in Workers :
          (pc[c] \in {"t_term", "t_kill"} /\ signals' # signals /\ pc'[c] # pc[c]
              /\ tpid[c] = file.pid)
          => \A d \in Workers \ {c} : ~held[d]]_vars

C5_JoinFrame ==
    [][\A c \in Workers :
          /\ (pc[c] = "s_read" /\ pc'[c] # "s_read" /\ err'[c] = "none"
                 /\ file.kind = "record" /\ IsPidAlive(file.pid))
             => pc'[c] = "s_join"
          /\ (pc[c] = "s_join" /\ pc'[c] = "s_exit" /\ err'[c] = "none")
             => /\ nextPid' = nextPid /\ procs' = procs /\ process' = process
                /\ ~probed'[c]
                /\ file' = [file EXCEPT !.worker_count = file.worker_count + 1]
                /\ info'[c] = EmulatorInfo(file.host, file.port, file.project)]_vars

\* A worker configured otherwise has joined and holds the stored info.
C5_Witness ==
    \E c \in Workers :
        /\ pc[c] = "s_exit" /\ err[c] = "none" /\ lport[c] = 0
        /\ file.kind = "record" /\ file.worker_count = 2
        /\ info[c] = EmulatorInfo(file.host, file.port, file.project)
        /\ info[c].project # cfg[c].project
        /\ process[c] = 0

\* C6: a worker that is not inside start() or stop() does not hold the lock.
C6_LockReleased ==
    \A c \in Workers : pc[c] \in {"idle", "started", "failed", "stopped"} => lock # c

\* After start() calls that raised, another worker is in the critical section.
C6_Witness ==
    \E c, d \in Workers :
        /\ pc[c] = "failed"
        /\ CallFailed
        /\ d # c /\ lock = d /\ pc[d] \in {"s_read", "s_launch", "s_wait"}

\* C7: a readiness timeout writes nothing; the call ends failed, with the
\* state file as it was read and the lock free; and a start() that finds no
\* record goes on to launch.
C7_TimeoutWritesNothing ==
    [][\A c \in Workers :
          /\ (pc[c] = "s_wait" /\ err'[c] = "TimeoutError")
             => (file' = file /\ pc'[c] = "s_exit")
          /\ (pc[c] = "s_exit" /\ err[c] = "TimeoutError" /\ pc'[c] # "s_exit")
             => /\ file' = file /\ ReadState(file) = st[c]
                /\ pc'[c] = "failed" /\ ~held'[c] /\ lock' = 0
          /\ (pc[c] = "s_read" /\ pc'[c] # "s_read" /\ err'[c] = "none"
                 /\ ReadState(file).kind = "none")
             => pc'[c] = "s_launch"]_vars

\* After a timed-out start() the file is absent and the next worker has
\* launched a second process.
C7_Witness ==
    \E c, d \in Workers :
        /\ pc[c] = "failed" /\ faults = {"timeout"}
        /\ pc[d] = "s_wait" /\ process[d] = 2
        /\ file = AbsentFile

\* C8: a start() that reads a missing or malformed state file raises
\* nothing because of it and goes on to launch.
C8_MalformedTreatedAsAbsent ==
    [][\A c \in Workers :
          (pc[c] = "s_read" /\ pc'[c] # "s_read" /\ err'[c] # "OSError"
              /\ file.kind \in {"absent"} \cup MalformedKinds)
          => (err'[c] = "none" /\ pc'[c] = "s_launch")]_vars

\* C9: every step of a shared stop() taken while the state file is absent
\* raises nothing, sends no signal and leaves the file absent.
C9_StopAbsentNoop ==
    [][\A c \in Workers :
          (pc[c] \in {"p_read", "p_dec", "p_exit"} /\ pc'[c] # pc[c] /\ file = AbsentFile)
          => /\ file' = AbsentFile /\ signals' = signals /\ procs' = procs
             /\ err'[c] = "none"
             /\ pc'[c] \in {"p_dec", "p_exit", "stopped"}]_vars

\* A stop() has found no record and is about to return.
C9_Witness ==
    \E c \in Workers :
        pc[c] = "p_exit" /\ st[c].kind = "none" /\ err[c] = "none" /\ file = AbsentFile

\* The step of instance c that is a stop() call.
IsStopCall(c) ==
    /\ pc[c] \in {"idle", "started"}
    /\ op'[c] = "stop"
    /\ <<pc[c], op[c], err[c]>> # <<pc'[c], op'[c], err'[c]>>

\* C10 as stated: a standalone stop() does anything (sends a signal, clears
\* the handle) only after a successful start().
C10_StopWithoutStartIsNoop ==
    \A c \in Standalones : pc[c] \in {"t_poll", "t_kill", "a_clear"} => held[c]

\* C10 amended: a standalone stop() on an instance whose start() calls have
\* launched nothing since its last stop() returns at once, sends no signal
\* and changes no state; if one has launched a process, readiness reached or
\* not, stop() goes on to terminate that process.
C10_StopWithoutHandleIsNoop ==
    [][\A c \in Standalones :
          /\ (IsStopCall(c) /\ pending[c] = {})
             => /\ pc'[c] = "idle"
                /\ signals' = signals /\ procs' = procs /\ process' = process
                /\ info' = info /\ is_owner' = is_owner /\ file' = file
          /\ (IsStopCall(c) /\ pending[c] # {})
             => (pc'[c] = "t_term" /\ tpid'[c] = process[c] /\ process[c] \in pending[c])]_vars

\* A stop() has returned on an instance whose only start() failed to launch.
C10_Witness ==
    \E c \in Standalones :
        /\ pc[c] = "idle" /\ op[c] = "stop" /\ err[c] = "none"
        /\ faults = {"launch_failed"}
        /\ LaunchCount = 0
        /\ \A d \in Standalones \ {c} : op[d] = "none"

\* The steps of a _terminate_process call.
InTerminate(c) == pc[c] \in {"t_term", "t_poll", "t_kill"}

\* C11: a _terminate_process call never raises and always returns, whether
\* the process is alive, already gone when the call is made (a second call
\* on the same pid included), or goes at any step during it; for a process
\* that is gone no signal is delivered and the call goes on to its return.
C11_TerminateIdempotent ==
    /\ [][\A c \in Direct :
             InTerminate(c) =>
                /\ err'[c] = "none"
                /\ (~IsPidAlive(tpid[c]) /\ pc'[c] # pc[c]) =>
                      /\ signals' = signals
                      /\ pc'[c] = IF pc[c] = "t_poll" /\ polls'[c] = polls[c]
                                  THEN "t_kill" ELSE "idle"]_vars
    /\ \A c \in Direct : InTerminate(c) ~> (pc[c] = "idle" /\ err[c] = "none")

\* A call on a pid that an earlier call had to SIGKILL has tried SIGTERM,
\* found the process gone, and returned.
C11_Witness ==
    \E c \in Direct :
        /\ pc[c] = "idle" /\ op[c] = "terminate" /\ err[c] = "none"
        /\ tpid[c] \in call.terminated
        /\ <<tpid[c], "SIGKILL">> \in signals
        /\ sent[c] = <<"SIGTERM">> /\ polls[c] = {}

\* C12: a _wait_for_port call returns normally only on a connect to its
\* port that succeeded; otherwise it ends by raising TimeoutError with the
\* message made of its timeout, host and port; it always ends, and with
\* nothing ever listening on the port it ends by raising.
C12_ReadinessTimeout ==
    /\ [][\A c \in Direct :
             (pc[c] = "w_poll" /\ pc'[c] # "w_poll") =>
                \/ /\ err'[c] = "none"
                   /\ call'.msg = <<>>
                   /\ \E q \in Pids : /\ procs[q].state = "running"
                                      /\ procs[q].listening
                                      /\ procs[q].port = call.port
                \/ /\ err'[c] = "TimeoutError"
                   /\ call'.msg = <<"Emulator did not start within ", call.timeout,
                                    "s on ", call.host, ":", call.port>>]_vars
    /\ \A c \in Direct : pc[c] = "w_poll" ~> pc[c] = "idle"
    /\ \A c \in Direct :
          []((pc[c] = "w_poll" /\ [](\A q \in Pids : ~procs[q].listening))
                => <>(pc[c] = "idle" /\ err[c] = "TimeoutError"))

\* A call has polled a port nothing listens on and has raised.
C12_Witness ==
    \E c \in Direct :
        /\ pc[c] = "idle" /\ op[c] = "wait" /\ err[c] = "TimeoutError"
        /\ probed[c]
        /\ call.msg = <<"Emulator did not start within ", 15, "s on ", "localhost", ":", 8085>>
        /\ \A q \in Pids : ~procs[q].listening

\* Any step of worker c's start() or stop().
WorkerStep(c) ==
    \/ StartBlocked(c) \/ StartAcquire(c) \/ StartRead(c) \/ StartJoin(c) \/ StartLaunch(c)
    \/ StartReady(c) \/ StartTimeout(c) \/ StartExit(c)
    \/ StopBlocked(c) \/ StopAcquire(c) \/ StopRead(c) \/ StopDecide(c) \/ StopUnlink(c)
    \/ StopExit(c)
    \/ TermSend(c) \/ TermPollAlive(c) \/ TermPollGone(c) \/ TermDeadline(c) \/ TermKill(c)

\* C13: a start() or stop() waiting for a lock whose holder never releases
\* it has a step to take (the raise of the lock error) and so is not left
\* waiting for ever.
C13_LockUnavailableSurfaced ==
    \A c \in Workers :
        (pc[c] \in {"s_lock", "p_lock"} /\ lock = Foreign) => ENABLED WorkerStep(c)

C15_EnvRoundTrip ==
    /\ fixture.pc = "active" =>
          /\ \E c \in Standalones : fixture.info = info[c] /\ pc[c] = "started"
          /\ DOMAIN environ = EnvNames
          /\ environ["PUBSUB_EMULATOR_HOST"] = fixture.info.host \o ":" \o ToString(fixture.info.port)
          /\ environ["PUBSUB_PROJECT_ID"] = fixture.info.project
    /\ fixture.pc # "active" => environ = fixture.before

\* The fixture has set and restored the variables, one of which was unset
\* before, and its stop() has returned.
C15_Witness ==
    \E c \in Standalones :
        /\ fixture.pc = "restored" /\ op[c] = "stop" /\ pc[c] = "idle"
        /\ fixture.info.port = 8085
        /\ DOMAIN fixture.before = {"PUBSUB_PROJECT_ID"}
        /\ fixture.old_host = None /\ fixture.old_project.set
        /\ environ = fixture.before

\* The steps of start() and stop() between taking and releasing the lock.
InCritical(c) ==
    pc[c] \in {"s_read", "s_join", "s_launch", "s_wait", "s_exit",
               "p_read", "p_dec", "t_term", "t_poll", "t_kill", "p_unlink", "p_exit"}

\* C16: a worker between the read and the write of the record holds the
\* lock, no other worker is there with it, and the stored record is still
\* the one it read; so every increment and decrement written is that of the
\* count stored just before the write.
C16_NoLostUpdate ==
    /\ [](\A c \in Workers :
            /\ InCritical(c) => (lock = c /\ \A d \in Workers \ {c} : ~InCritical(d))
            /\ pc[c] \in {"s_join", "s_launch", "s_wait", "p_dec"} => st[c] = ReadState(file)
            /\ pc[c] \in {"t_term", "t_poll", "t_kill", "p_unlink"} =>
                  (file.kind = "record" /\ st[c] = [file EXCEPT !.worker_count = @ - 1]))
    /\ [][\A c \in Workers :
             /\ (pc[c] = "s_join" /\ pc'[c] # pc[c] /\ err'[c] = "none") =>
                   file' = [file EXCEPT !.worker_count = @ + 1]
             /\ (pc[c] = "p_dec" /\ pc'[c] = "p_exit" /\ err'[c] = "none"
                     /\ file.kind = "record") =>
                   (file' = [file EXCEPT !.worker_count = @ - 1] /\ file'.worker_count > 0)
             /\ (pc[c] = "p_dec" /\ pc'[c] = "t_term") =>
                   (file.kind = "record" /\ file.worker_count - 1 <= 0)]_vars

\* After two increments, one worker has written the decrement to 1 while
\* the other still has its start() outstanding.
C16_Witness ==
    \E c, d \in Workers :
        /\ pc[c] = "p_exit" /\ err[c] = "none" /\ st[c].kind = "record"
        /\ pc[d] = "started" /\ held[d]
        /\ file.kind = "record" /\ file.worker_count = 1 /\ st[c] = file
        /\ faults = {}

\* Some running process accepts connections on port p.
Listening(p) ==
    \E q \in Pids : procs[q].state = "running" /\ procs[q].listening /\ procs[q].port = p

\* C17: a launcher holds the lock from its read of the state to its exit,
\* and no other worker reads or writes the state meanwhile; a new record
\* appears in the state file only by the step of a launcher that has just
\* seen its port open, and carries that port; a launcher's info is set only
\* in that step; and the info a joiner gets is the info of the launcher of
\* the recorded process.
C17_PublishedAfterReady ==
    /\ [](\A c \in Workers :
            pc[c] \in {"s_read", "s_launch", "s_wait", "s_exit"} =>
               (lock = c /\ \A d \in Workers \ {c} : ~InCritical(d)))
    /\ [][
           /\ (file'.kind = "record" /\ (file.kind # "record" \/ file'.pid # file.pid)) =>
                 \E w \in Workers :
                    /\ pc[w] = "s_wait" /\ pc'[w] = "s_exit" /\ lock = w
                    /\ Listening(lport[w])
                    /\ file' = StateRecord(process[w], cfg[w].host, lport[w], cfg[w].project, 1)
           /\ \A c \in Workers :
                 /\ (pc[c] \in {"s_launch", "s_wait"} /\ pc'[c] # "s_exit") => file' = file
                 /\ (pc[c] = "s_wait" /\ info'[c] # info[c]) =>
                       (Listening(lport[c]) /\ info'[c].port = lport[c])
                 /\ (pc[c] = "s_join" /\ info'[c] # info[c]) =>
                       \E l \in Workers \ {c} :
                          /\ process[l] = file.pid
                          /\ info[l] = info'[c]
                          /\ info[l].port = file.port
       ]_vars

\* A joiner holds the info of the launcher whose emulator is listening on
\* the recorded port.
C17_Witness ==
    \E c, l \in Workers :
        /\ c # l /\ pc[c] = "s_exit" /\ err[c] = "none" /\ process[c] = 0
        /\ process[l] = file.pid /\ pc[l] = "started"
        /\ info[c] = info[l] /\ info[c].port = file.port
        /\ procs[file.pid].listening /\ procs[file.pid].port = file.port

\* C18: a _terminate_process call passes SIGTERM to os.kill first and
\* SIGKILL, if at all, second; it passes SIGKILL only from past the deadline,
\* which it reaches from the polling loop with no poll having found the
\* process gone; a poll that finds it gone ends the call; and no process
\* gets SIGKILL that has not had SIGTERM.
C18_GracefulThenForceful ==
    /\ [](\A c \in Callers :
            /\ sent[c] \in {<<>>, <<"SIGTERM">>, <<"SIGTERM", "SIGKILL">>}
            /\ pc[c] \in {"t_poll", "t_kill"} => (sent[c] = <<"SIGTERM">> /\ "gone" \notin polls[c])
            /\ "gone" \in polls[c] => sent[c] = <<"SIGTERM">>)
    /\ [](\A p \in Pids : <<p, "SIGKILL">> \in signals => <<p, "SIGTERM">> \in signals)
    /\ [][\A c \in Callers :
             /\ (Len(sent'[c]) = 2 /\ Len(sent[c]) < 2) =>
                   (pc[c] = "t_kill" /\ sent[c] = <<"SIGTERM">> /\ "gone" \notin polls[c])
             /\ (pc'[c] = "t_kill" /\ pc[c] # "t_kill") =>
                   (pc[c] = "t_poll" /\ polls'[c] = polls[c])
             /\ (pc[c] = "t_poll" /\ "gone" \in polls'[c]) =>
                   (pc'[c] = AfterTerminate(c) /\ sent'[c] = sent[c] /\ signals' = signals)]_vars

\* After polls that found the process alive the call has sent SIGKILL.
C18_Witness ==
    \E c \in Callers :
        /\ sent[c] = <<"SIGTERM", "SIGKILL">>
        /\ polls[c] = {"alive"}
        /\ <<tpid[c], "SIGKILL">> \in signals
        /\ procs[tpid[c]].state = "gone"

\* C19: whenever the state file holds a record its worker_count is at least
\* 1; the stop() that finds a count of 1 or less writes nothing and goes on
\* to terminate the recorded process and delete the file.
C19_CountAtLeastOne ==
    /\ [](file.kind = "record" => file.worker_count >= 1)
    /\ [][\A c \in Workers :
             /\ (pc[c] = "p_dec" /\ pc'[c] # pc[c] /\ file.kind = "record"
                     /\ file.worker_count <= 1) =>
                   (pc'[c] = "t_term" /\ tpid'[c] = file.pid /\ file' = file)
             /\ (pc[c] = "p_unlink" /\ pc'[c] # pc[c]) => file' = AbsentFile]_vars

\* The last leaver has counted down to 0 and deleted the file.
C19_Witness ==
    \E c \in Workers :
        /\ pc[c] = "p_exit" /\ err[c] = "none"
        /\ st[c].kind = "record" /\ st[c].worker_count = 0
        /\ file = AbsentFile

\* C20: a standalone stop() on an instance whose start() calls have launched
\* processes since its last stop() goes on to terminate each of them that
\* is still running.
C20_StopCoversEveryLaunched ==
    [][\A c \in Standalones :
          (IsStopCall(c) /\ pending[c] # {}) =>
             /\ pc'[c] = "t_term"
             /\ \A p \in pending[c] : IsPidAlive(p) => tpid'[c] = p]_vars

====
